---- MODULE Spec2Model ----
(***************************************************************************)
(* Model of ptwt's sparse-matrix fast wavelet transform                    *)
(* (src/src/ptwt/matmul_transform.py) and of the input validation of the   *)
(* two dimensional reconstruction (src/src/ptwt/conv_transform_2.py).      *)
(*                                                                         *)
(* Numbers are exact elements of Z[1/sqrt(2)], the ring that holds every   *)
(* Haar coefficient of an integer signal; the coefficients of longer       *)
(* filters (and the rows a QR or Gram-Schmidt repair writes) are carried   *)
(* as "unknown" values that absorb every sum and product they enter.       *)
(* Indices of matrices are 0-based as in the source; vectors are TLA+      *)
(* sequences, so entry j of the source is v[j + 1].  A call transforms one *)
(* time series: the entries of a batch are transformed independently.      *)
(***************************************************************************)
EXTENDS Integers, Sequences, FiniteSets

\* ------------------------------------------------------------------ bounds
\* longest input signal (before padding)
MaxLen == 8
\* largest explicit level requested
MaxLevel == 4
\* smallest explicit level requested (as -MinLevelNeg)
MinLevelNeg == 1
\* most detail tuples handed to waverec2, and largest tensor side
MaxDetail2 == 2
MaxSide2 == 3

\* ------------------------------------------------------------ exact numbers
RECURSIVE Pow2(_)
Pow2(n) == IF n <= 0 THEN 1 ELSE 2 * Pow2(n - 1)

RECURSIVE Norm(_, _, _)
\* (a + b*sqrt(2)) / 2^k with k minimal
Norm(a, b, k) ==
  IF k > 0 /\ a % 2 = 0 /\ b % 2 = 0
    THEN Norm(a \div 2, b \div 2, k - 1)
    ELSE [a |-> a, b |-> b, k |-> k, u |-> FALSE]

Unknown == [a |-> 0, b |-> 0, k |-> 0, u |-> TRUE]
Num(n) == [a |-> n, b |-> 0, k |-> 0, u |-> FALSE]
Zero == Num(0)
One == Num(1)
\* 1/sqrt(2) = sqrt(2)/2 and its negative
InvSqrt2 == [a |-> 0, b |-> 1, k |-> 1, u |-> FALSE]
NegInvSqrt2 == [a |-> 0, b |-> -1, k |-> 1, u |-> FALSE]

NAdd(x, y) ==
  IF x.u \/ y.u THEN Unknown
  ELSE LET K == IF x.k > y.k THEN x.k ELSE y.k
       IN Norm(x.a * Pow2(K - x.k) + y.a * Pow2(K - y.k),
               x.b * Pow2(K - x.k) + y.b * Pow2(K - y.k), K)

NMul(x, y) ==
  IF x.u \/ y.u THEN Unknown
  ELSE Norm(x.a * y.a + 2 * x.b * y.b, x.a * y.b + x.b * y.a, x.k + y.k)

\* ---------------------------------------------------------------- helpers
Reverse(s) == [i \in 1..Len(s) |-> s[Len(s) + 1 - i]]
Last(s) == s[Len(s)]

RECURSIVE SumSeq(_)
SumSeq(s) == IF s = <<>> THEN 0 ELSE Head(s) + SumSeq(Tail(s))

RECURSIVE Concat(_)
\* torch.cat(segments, 0)
Concat(ss) == IF ss = <<>> THEN <<>> ELSE Head(ss) \o Concat(Tail(ss))

RECURSIVE SetMax(_)
SetMax(S) ==
  IF S = {} THEN -1
  ELSE LET x == CHOOSE y \in S : TRUE
           m == SetMax(S \ {x})
       IN IF x > m THEN x ELSE m

RECURSIVE FloorLog2(_)
FloorLog2(n) == IF n <= 1 THEN 0 ELSE 1 + FloorLog2(n \div 2)

\* ---------------------------------------------------------------- wavelets
\* pywt.Wavelet("haar").filter_bank: dec_lo, dec_hi, rec_lo, rec_hi
haar ==
  [name |-> "haar",
   dec_lo |-> <<InvSqrt2, InvSqrt2>>, dec_hi |-> <<NegInvSqrt2, InvSqrt2>>,
   rec_lo |-> <<InvSqrt2, InvSqrt2>>, rec_hi |-> <<InvSqrt2, NegInvSqrt2>>]

\* a filter bank with four taps per filter (db2); its irrational taps are
\* carried as unknown values
db2 ==
  [name |-> "db2",
   dec_lo |-> <<Unknown, Unknown, Unknown, Unknown>>,
   dec_hi |-> <<Unknown, Unknown, Unknown, Unknown>>,
   rec_lo |-> <<Unknown, Unknown, Unknown, Unknown>>,
   rec_hi |-> <<Unknown, Unknown, Unknown, Unknown>>]

Wavelets == {haar, db2}

\* len(wavelet) and len(dec_lo)
filt_len_of(wavelet) == Len(wavelet.dec_lo)

\* get_filter_tensors(wavelet, flip, ...): the four filters, reversed when flip
get_filter_tensors(wavelet, flip) ==
  IF flip
    THEN [dec_lo |-> Reverse(wavelet.dec_lo), dec_hi |-> Reverse(wavelet.dec_hi),
          rec_lo |-> Reverse(wavelet.rec_lo), rec_hi |-> Reverse(wavelet.rec_hi)]
    ELSE [dec_lo |-> wavelet.dec_lo, dec_hi |-> wavelet.dec_hi,
          rec_lo |-> wavelet.rec_lo, rec_hi |-> wavelet.rec_hi]

\* ---------------------------------------------------------- sparse matrices
\* A sparse COO matrix: its shape, its stored entries [r, c, v] and, as a
\* history field, the routine that last repaired its rows ("raw": none).
SparseMatrix(rows, cols, ent, orth) ==
  [rows |-> rows, cols |-> cols, ent |-> ent, orth |-> orth]

\* the column shift of mode 'sameshift' for a filter of F taps
sameshift(F) == F \div 2 - 1

\* construct_strided_conv_matrix(filter, input_rows, 2, 'sameshift'):
\* (M x)[i] = SUM_k filter[k] * x[2 i + k - shift], out-of-range columns dropped
construct_strided_conv_matrix(filter, input_rows) ==
  LET F == Len(filter)
      nrows == (input_rows + 1) \div 2
      pos == {p \in (0..(nrows - 1)) \X (0..(F - 1)) :
                /\ 2 * p[1] + p[2] - sameshift(F) >= 0
                /\ 2 * p[1] + p[2] - sameshift(F) < input_rows}
  IN SparseMatrix(nrows, input_rows,
       {[r |-> p[1], c |-> 2 * p[1] + p[2] - sameshift(F), v |-> filter[p[2] + 1]]
          : p \in pos},
       "raw")

\* torch.cat([upper, lower]) of two sparse matrices (along dimension 0)
sparse_cat(upper, lower) ==
  SparseMatrix(upper.rows + lower.rows, upper.cols,
    upper.ent \cup {[r |-> e.r + upper.rows, c |-> e.c, v |-> e.v] : e \in lower.ent},
    upper.orth)

\* matrix.transpose(0, 1)
transpose(m) ==
  SparseMatrix(m.cols, m.rows, {[r |-> e.c, c |-> e.r, v |-> e.v] : e \in m.ent}, m.orth)

\* _construct_a: the raw analysis matrix
construct_a(wavelet, length) ==
  LET f == get_filter_tensors(wavelet, FALSE)
  IN sparse_cat(construct_strided_conv_matrix(f.dec_lo, length),
                construct_strided_conv_matrix(f.dec_hi, length))

\* mutant of construct_s: the transposition is forgotten
construct_s_untransposed(wavelet, length) ==
  LET f == get_filter_tensors(wavelet, TRUE)
  IN sparse_cat(construct_strided_conv_matrix(f.rec_lo, length),
                construct_strided_conv_matrix(f.rec_hi, length))

\* _construct_s: the raw synthesis matrix
construct_s(wavelet, length) ==
  LET f == get_filter_tensors(wavelet, TRUE)
  IN transpose(sparse_cat(construct_strided_conv_matrix(f.rec_lo, length),
                          construct_strided_conv_matrix(f.rec_hi, length)))

\* the number of stored entries of row r
row_count(matrix, r) == Cardinality({e \in matrix.ent : e.r = r})

\* mutant of get_to_orthogonalize: the comparison is inverted (count == filt_len)
get_to_orthogonalize_full_rows(matrix, filt_len) ==
  {r \in {e.r : e \in matrix.ent} : row_count(matrix, r) = filt_len}

\* _get_to_orthogonalize: unique[count != filt_len] over the stored row indices
get_to_orthogonalize(matrix, filt_len) ==
  {r \in {e.r : e \in matrix.ent} : row_count(matrix, r) # filt_len}

\* the rows a repair writes: the flagged rows, dense over the columns they
\* touch, with values this model does not compute
orth_rows(matrix, to_orthogonalize, by) ==
  LET touched == {e.c : e \in {x \in matrix.ent : x.r \in to_orthogonalize}}
  IN SparseMatrix(matrix.rows, matrix.cols,
       {e \in matrix.ent : e.r \notin to_orthogonalize}
         \cup {[r |-> p[1], c |-> p[2], v |-> Unknown] : p \in to_orthogonalize \X touched},
       by)

\* _orth_by_qr and _orth_by_gram_schmidt
orth_by_qr(matrix, to_orthogonalize) == orth_rows(matrix, to_orthogonalize, "qr")
orth_by_gram_schmidt(matrix, to_orthogonalize) ==
  orth_rows(matrix, to_orthogonalize, "gramschmidt")

\* orthogonalize(matrix, filt_len, method)
orthogonalize(matrix, filt_len, method) ==
  LET to_orthogonalize == get_to_orthogonalize(matrix, filt_len)
  IN IF Cardinality(to_orthogonalize) > 0
       THEN IF method = "qr"
              THEN orth_by_qr(matrix, to_orthogonalize)
              ELSE orth_by_gram_schmidt(matrix, to_orthogonalize)
       ELSE matrix

\* construct_boundary_a(wavelet, length, boundary)
construct_boundary_a(wavelet, length, boundary) ==
  orthogonalize(construct_a(wavelet, length), filt_len_of(wavelet), boundary)

\* construct_boundary_s(wavelet, length, boundary)
construct_boundary_s(wavelet, length, boundary) ==
  transpose(orthogonalize(transpose(construct_s(wavelet, length)),
                          filt_len_of(wavelet), boundary))

\* the two assertions of cat_sparse_identity_matrix
cat_asserts(sparse_matrix, new_length) ==
  /\ sparse_matrix.rows = sparse_matrix.cols
  /\ new_length > sparse_matrix.rows

\* mutant of cat_sparse_identity_matrix: the diagonal starts one entry late
cat_sparse_identity_matrix_late(sparse_matrix, new_length) ==
  LET extra == {[r |-> i, c |-> i, v |-> One]
                  : i \in (sparse_matrix.rows + 1)..(new_length - 1)}
      new_ent == sparse_matrix.ent \cup extra
  IN SparseMatrix(SetMax({e.r : e \in new_ent}) + 1,
                  SetMax({e.c : e \in new_ent}) + 1, new_ent, sparse_matrix.orth)

\* cat_sparse_identity_matrix: the stored entries followed by ones on the
\* diagonal from shape[0] to new_length - 1; torch.sparse_coo_tensor infers
\* the size from the largest index of each dimension
cat_sparse_identity_matrix(sparse_matrix, new_length) ==
  LET extra == {[r |-> i, c |-> i, v |-> One]
                  : i \in sparse_matrix.rows..(new_length - 1)}
      new_ent == sparse_matrix.ent \cup extra
  IN SparseMatrix(SetMax({e.r : e \in new_ent}) + 1,
                  SetMax({e.c : e \in new_ent}) + 1, new_ent, sparse_matrix.orth)

\* row i of torch.sparse.mm(matrix, vector)
mm_row(matrix, vec, i) ==
  LET row == {e \in matrix.ent : e.r = i}
      RECURSIVE acc(_)
      acc(R) == IF R = {} THEN Zero
                ELSE LET e == CHOOSE x \in R : TRUE
                     IN NAdd(NMul(e.v, vec[e.c + 1]), acc(R \ {e}))
  IN acc(row)

\* torch.sparse.mm(matrix, vector) for a column vector
sparse_mm(matrix, vec) == [i \in 1..matrix.rows |-> mm_row(matrix, vec, i - 1)]

\* torch.split(vec, sizes): consecutive segments of the given sizes
RECURSIVE split_segments(_, _)
split_segments(vec, sizes) ==
  IF sizes = <<>> THEN <<>>
  ELSE <<SubSeq(vec, 1, Head(sizes))>>
         \o split_segments(SubSeq(vec, Head(sizes) + 1, Len(vec)), Tail(sizes))

\* torch.split raises unless the sizes sum to the length of the dimension
split_ok(vec, sizes) == SumSeq(sizes) = Len(vec)

\* ---------------------------------------------------------- matrix_wavedec
\* a level argument: <<>> is None, <<n>> the explicit level n
NoLevel == <<>>
Levels == {NoLevel} \cup {<<n>> : n \in (0 - MinLevelNeg)..MaxLevel}

\* mutant of pad_odd: the zero is put on the left
pad_odd_left(data) == IF Len(data) % 2 # 0 THEN <<Zero>> \o data ELSE data

\* torch.nn.functional.pad(data, [0, 1]) when the length is odd
pad_odd(data) == IF Len(data) % 2 # 0 THEN data \o <<Zero>> ELSE data

\* int(np.log2(length)) raises for length 0 (log2 is -inf)
default_level_ok(length) == length > 0
default_level(length) == FloorLog2(length)

\* mutant of level_assert: level 0 is let through
level_assert_nonnegative(level) == level >= 0

\* assert level > 0, "level must be a positive integer."
level_assert(level) == level > 0

\* the loop's break: the remaining sub-length is below the filter length
too_short(split_list, filt_len) == Last(split_list) < filt_len

\* new_split_size = length // np.power(2, s)
new_split_size(length, s) == length \div Pow2(s)

\* for s in range(1, level + 1) of matrix_wavedec, from iteration s on;
\* acc holds split_list, fwt_mat_list and whether an assertion has failed
RECURSIVE wavedec_loop(_, _, _, _, _, _)
wavedec_loop(s, level, length, wavelet, boundary, acc) ==
  IF s > level \/ too_short(acc.split_list, filt_len_of(wavelet)) THEN acc
  ELSE LET an == construct_boundary_a(wavelet, Last(acc.split_list), boundary)
       IN IF s > 1 /\ ~cat_asserts(an, length)
            THEN [acc EXCEPT !.failed = TRUE]
            ELSE wavedec_loop(s + 1, level, length, wavelet, boundary,
                   [split_list |-> Append(acc.split_list, new_split_size(length, s)),
                    mat_list |-> Append(acc.mat_list,
                                   IF s > 1 THEN cat_sparse_identity_matrix(an, length)
                                            ELSE an),
                    failed |-> FALSE])

\* for fwt_mat in fwt_mat_list: coefficients = torch.sparse.mm(fwt_mat, coefficients);
\* the vectors before the first and after every multiplication. A matrix whose
\* column count differs from the vector's length ends the fold (torch raises).
RECURSIVE apply_all(_, _)
apply_all(mat_list, vecs) ==
  IF mat_list = <<>> \/ Head(mat_list).cols # Len(Last(vecs)) THEN vecs
  ELSE apply_all(Tail(mat_list), Append(vecs, sparse_mm(Head(mat_list), Last(vecs))))

\* split_list.append(length // np.power(2, level)); split_list[1:][::-1]
split_sizes(split_list, length, level) ==
  Reverse(Tail(Append(split_list, length \div Pow2(level))))

Failed(data, error) ==
  [status |-> "error", error |-> error, data |-> data, length |-> Len(data), level |-> 0,
   split_list |-> <<Len(data)>>, mat_list |-> <<>>, steps |-> <<data>>,
   out |-> <<>>, out_mats |-> <<>>]

\* matrix_wavedec(data, wavelet, level, boundary): data after padding, the
\* locals at the return or the raise, and the returned pair (out, out_mats)
matrix_wavedec(data_in, wavelet, level_in, boundary) ==
  LET data == pad_odd(data_in)
      length == Len(data)
  IN IF level_in = NoLevel /\ ~default_level_ok(length)
       THEN Failed(data, "OverflowError")
     ELSE IF level_in # NoLevel /\ ~level_assert(level_in[1])
       THEN Failed(data, "AssertionError")
     ELSE
       LET level == IF level_in = NoLevel THEN default_level(length) ELSE level_in[1]
           built == wavedec_loop(1, level, length, wavelet, boundary,
                      [split_list |-> <<length>>, mat_list |-> <<>>, failed |-> FALSE])
           steps == apply_all(built.mat_list, <<data>>)
           sizes == split_sizes(built.split_list, length, level)
           ok == /\ ~built.failed
                 /\ Len(steps) = Len(built.mat_list) + 1
                 /\ split_ok(Last(steps), sizes)
       IN [status |-> IF ok THEN "ok" ELSE "error",
           error |-> IF ok THEN "none"
                     ELSE IF built.failed THEN "AssertionError" ELSE "RuntimeError",
           data |-> data, length |-> length, level |-> level,
           split_list |-> built.split_list, mat_list |-> built.mat_list,
           steps |-> steps,
           out |-> IF ok THEN split_segments(Last(steps), sizes) ELSE <<>>,
           out_mats |-> IF ok THEN built.mat_list ELSE <<>>]

\* ---------------------------------------------------------- matrix_waverec
RECURSIVE waverec_loop(_, _, _, _, _, _)
waverec_loop(s, level, length, wavelet, boundary, acc) ==
  IF s > level \/ too_short(acc.split_list, filt_len_of(wavelet)) THEN acc
  ELSE LET sn == construct_boundary_s(wavelet, Last(acc.split_list), boundary)
       IN IF s > 1 /\ ~cat_asserts(sn, length)
            THEN [acc EXCEPT !.failed = TRUE]
            ELSE waverec_loop(s + 1, level, length, wavelet, boundary,
                   [split_list |-> Append(acc.split_list, new_split_size(length, s)),
                    mat_list |-> Append(acc.mat_list,
                                   IF s > 1 THEN cat_sparse_identity_matrix(sn, length)
                                            ELSE sn),
                    failed |-> FALSE])

\* mutant of apply_order: the list is applied as built, level 1 first
apply_order_as_built(ifwt_mat_lst) == ifwt_mat_lst

\* ifwt_mat_lst[::-1]: the order in which the synthesis matrices are applied
apply_order(ifwt_mat_lst) == Reverse(ifwt_mat_lst)

\* matrix_waverec(coefficients, wavelet, level, boundary) for a tuple of
\* coefficient segments
matrix_waverec(segments, wavelet, level_in, boundary) ==
  LET coefficients == Concat(segments)
      length == Len(coefficients)
  IN IF level_in = NoLevel /\ ~default_level_ok(length)
       THEN Failed(coefficients, "OverflowError")
     ELSE IF level_in # NoLevel /\ ~level_assert(level_in[1])
       THEN Failed(coefficients, "AssertionError")
     ELSE
       LET level == IF level_in = NoLevel THEN default_level(length) ELSE level_in[1]
           built == waverec_loop(1, level, length, wavelet, boundary,
                      [split_list |-> <<length>>, mat_list |-> <<>>, failed |-> FALSE])
           steps == apply_all(apply_order(built.mat_list), <<coefficients>>)
           ok == ~built.failed /\ Len(steps) = Len(built.mat_list) + 1
       IN [status |-> IF ok THEN "ok" ELSE "error",
           error |-> IF ok THEN "none"
                     ELSE IF built.failed THEN "AssertionError" ELSE "RuntimeError",
           data |-> coefficients, length |-> length, level |-> level,
           split_list |-> built.split_list, mat_list |-> built.mat_list,
           steps |-> steps,
           out |-> IF ok THEN Last(steps) ELSE <<>>,
           out_mats |-> IF ok THEN apply_order(built.mat_list) ELSE <<>>]

\* ---------------------------------------------------------------- waverec2
\* coeffs of waverec2: the first element (a tensor, or a tuple where a
\* tensor is expected) and the detail tuples, each by its [height, width]
Sides == 1..MaxSide2
Shapes == Sides \X Sides
RECURSIVE DetailLists(_)
DetailLists(n) ==
  IF n = 0 THEN {<<>>}
  ELSE DetailLists(n - 1)
         \cup {Append(d, sh) : d \in {x \in DetailLists(n - 1) : Len(x) = n - 1},
                               sh \in Shapes}

\* mutant of first_is_tensor: the check is dropped
first_is_tensor_unchecked(first_kind) == TRUE

\* isinstance(coeffs[0], torch.Tensor)
first_is_tensor(first_kind) == first_kind = "tensor"

\* padl = padr = padt = padb = (2 * filt_len - 3) // 2
rec_pad(filt_len) == (2 * filt_len - 3) \div 2

\* the length conv_transpose2d(..., stride=2) gives a side of length n
conv_transpose_len(n, filt_len) == (n - 1) * 2 + filt_len

Max0(n) == IF n < 0 THEN 0 ELSE n

\* one side of one pass of the loop: the side after the transposed
\* convolution, the end padding (one more when the next level is one shorter)
\* and the side left after the slices; ok is the padding assertion
rec_side(n, filt_len, has_next, next_len) ==
  LET out == conv_transpose_len(n, filt_len)
      pad == rec_pad(filt_len)
      more == has_next /\ next_len # out - (pad + pad)
      pad_end == IF more THEN pad + 1 ELSE pad
  IN [ok |-> ~more \/ next_len = out - (pad + pad_end),
      len |-> Max0(Max0(out - pad) - pad_end)]

\* for c_pos, res_lh_hl_hh in enumerate(coeffs[1:]), from position c_pos on
\* (details[c_pos + 1] is coeffs[c_pos + 1]); torch.cat raises when the
\* running approximation and the detail tensors differ in shape
RECURSIVE waverec2_loop(_, _, _, _)
waverec2_loop(c_pos, details, filt_len, acc) ==
  IF c_pos >= Len(details) THEN acc
  ELSE IF acc.shape # details[c_pos + 1]
    THEN [acc EXCEPT !.status = "error", !.error = "RuntimeError"]
  ELSE LET has_next == c_pos < (Len(details) + 1) - 2
           nxt == IF has_next THEN details[c_pos + 2] ELSE <<0, 0>>
           h == rec_side(acc.shape[1], filt_len, has_next, nxt[1])
           w == rec_side(acc.shape[2], filt_len, has_next, nxt[2])
       IN IF ~(h.ok /\ w.ok)
            THEN [status |-> "error", error |-> "AssertionError",
                  steps |-> acc.steps + 1, shape |-> acc.shape]
            ELSE waverec2_loop(c_pos + 1, details, filt_len,
                   [status |-> "ok", error |-> "none",
                    steps |-> acc.steps + 1, shape |-> <<h.len, w.len>>])

\* waverec2(coeffs, wavelet): steps counts the transposed convolutions run
waverec2(first_kind, first_shape, details, wavelet) ==
  IF ~first_is_tensor(first_kind)
    THEN [status |-> "error", error |-> "ValueError", steps |-> 0,
          shape |-> <<0, 0>>]
    ELSE waverec2_loop(0, details, Len(wavelet.rec_lo),
           [status |-> "ok", error |-> "none", steps |-> 0, shape |-> first_shape])

\* ------------------------------------------------------------------ state
VARIABLES
  pc,     \* "idle", "decomposed", "reconstructed", "reconstructed2", "constructed"
  call,   \* the arguments of the last matrix_wavedec call
  dec,    \* what that call computed and returned
  rcall,  \* the arguments of the last matrix_waverec call
  rec,    \* what that call computed and returned
  call2,  \* the arguments of the last waverec2 call
  rec2,   \* what that call did
  op      \* the last construct_boundary_a / construct_boundary_s call

vars == <<pc, call, dec, rcall, rec, call2, rec2, op>>

Methods == {"qr", "gramschmidt", "svd"}

\* the input signals of length n: the zero signal, the unit impulses (a basis
\* of the signals of that length) and a ramp
Signals(n) ==
  {[i \in 1..n |-> Num(IF i = p THEN 1 ELSE 0)] : p \in 0..n}
    \cup {[i \in 1..n |-> Num(i)]}

NoCall == [data |-> <<>>, wavelet |-> haar, level |-> NoLevel, boundary |-> "qr"]
NoRCall == [order |-> "none", level |-> NoLevel, boundary |-> "qr"]
NoCall2 == [first_kind |-> "none", first_shape |-> <<0, 0>>, details |-> <<>>,
            wavelet |-> haar]
NoRec2 == [status |-> "none", error |-> "none", steps |-> 0, shape |-> <<0, 0>>]
NoOp == [kind |-> "none", wavelet |-> haar, length |-> 0, boundary |-> "qr",
         raw |-> SparseMatrix(0, 0, {}, "raw"), to_orthogonalize |-> {},
         orth_out |-> SparseMatrix(0, 0, {}, "raw"),
         out |-> SparseMatrix(0, 0, {}, "raw")]

\* a direct call of construct_boundary_a (kind "a") or construct_boundary_s
\* (kind "s"): the matrix handed to orthogonalize, the rows it selects, what
\* it returns and what the call returns
boundary_call(kind, wavelet, length, boundary) ==
  LET raw == IF kind = "a" THEN construct_a(wavelet, length)
                           ELSE transpose(construct_s(wavelet, length))
  IN [kind |-> kind, wavelet |-> wavelet, length |-> length, boundary |-> boundary,
      raw |-> raw,
      to_orthogonalize |-> get_to_orthogonalize(raw, filt_len_of(wavelet)),
      orth_out |-> orthogonalize(raw, filt_len_of(wavelet), boundary),
      out |-> IF kind = "a" THEN construct_boundary_a(wavelet, length, boundary)
                            ELSE construct_boundary_s(wavelet, length, boundary)]

Init ==
  /\ pc = "idle"
  /\ call = NoCall
  /\ dec = Failed(<<>>, "none")
  /\ rcall = NoRCall
  /\ rec = Failed(<<>>, "none")
  /\ call2 = NoCall2
  /\ rec2 = NoRec2
  /\ op = NoOp

Wavedec ==
  /\ pc = "idle"
  /\ \E n \in 0..MaxLen, wavelet \in Wavelets, level \in Levels, boundary \in Methods :
       \E data \in Signals(n) :
         /\ call' = [data |-> data, wavelet |-> wavelet, level |-> level,
                     boundary |-> boundary]
         /\ dec' = matrix_wavedec(data, wavelet, level, boundary)
  /\ pc' = "decomposed"
  /\ UNCHANGED <<rcall, rec, call2, rec2, op>>

\* the caller hands the segments on as returned, or detail_1 first
Arrange(segments, order) == IF order = "returned" THEN segments ELSE Reverse(segments)

Waverec ==
  /\ pc = "decomposed"
  /\ dec.status = "ok"
  /\ \E order \in {"returned", "reversed"}, level \in Levels, boundary \in Methods :
       /\ rcall' = [order |-> order, level |-> level, boundary |-> boundary]
       /\ rec' = matrix_waverec(Arrange(dec.out, order), call.wavelet, level, boundary)
  /\ pc' = "reconstructed"
  /\ UNCHANGED <<call, dec, call2, rec2, op>>

Waverec2 ==
  /\ pc = "idle"
  /\ \E first_kind \in {"tensor", "tuple"}, first_shape \in Shapes,
        details \in DetailLists(MaxDetail2), wavelet \in Wavelets :
       /\ call2' = [first_kind |-> first_kind, first_shape |-> first_shape,
                    details |-> details, wavelet |-> wavelet]
       /\ rec2' = waverec2(first_kind, first_shape, details, wavelet)
  /\ pc' = "reconstructed2"
  /\ UNCHANGED <<call, dec, rcall, rec, op>>

ConstructBoundary ==
  /\ pc = "idle"
  /\ \E kind \in {"a", "s"}, wavelet \in Wavelets, length \in 1..MaxLen,
        boundary \in Methods :
       op' = boundary_call(kind, wavelet, length, boundary)
  /\ pc' = "constructed"
  /\ UNCHANGED <<call, dec, rcall, rec, call2, rec2>>

Return ==
  /\ pc \in {"decomposed", "reconstructed", "reconstructed2", "constructed"}
  /\ pc' = "idle"
  /\ call' = NoCall
  /\ dec' = Failed(<<>>, "none")
  /\ rcall' = NoRCall
  /\ rec' = Failed(<<>>, "none")
  /\ call2' = NoCall2
  /\ rec2' = NoRec2
  /\ op' = NoOp

Next == Wavedec \/ Waverec \/ Waverec2 \/ ConstructBoundary \/ Return

Spec == Init /\ [][Next]_vars

\* ------------------------------------------------------------ the claims
Min(a, b) == IF a < b THEN a ELSE b
SegLens(segments) == [i \in 1..Len(segments) |-> Len(segments[i])]

\* a matrix_wavedec call has been made and dec holds what it did
Decomposed == pc \in {"decomposed", "reconstructed"}
\* the level argument of that call was None or a positive integer
ValidLevel == call.level = NoLevel \/ call.level[1] > 0
FiltLen == filt_len_of(call.wavelet)
\* every level 1..L works on an even sub-length of at least F entries
Feasible(N, F, L) == L >= 1 /\ N % Pow2(L) = 0 /\ N \div Pow2(L - 1) >= F
\* matrix_waverec was handed the segments as returned, with the same level
\* and boundary method
RoundTrip ==
  /\ pc = "reconstructed"
  /\ rcall.order = "returned"
  /\ rcall.level = call.level
  /\ rcall.boundary = call.boundary

C2_SegmentAccounting ==
  (Decomposed /\ Len(call.data) > 0 /\ ValidLevel /\ dec.error # "AssertionError")
    => /\ dec.status = "ok"
       /\ SumSeq(SegLens(dec.out)) = dec.length

\* C3: for padded length N >= F and an explicit level L >= 1 the returned
\* matrix list has min(L, floor(log2(N / F)) + 1) entries.
C3_LevelSaturation ==
  (Decomposed /\ call.level # NoLevel /\ ValidLevel /\ dec.length >= FiltLen
     /\ dec.error # "AssertionError")
    => /\ dec.status = "ok"
       /\ Len(dec.out_mats)
            = Min(call.level[1], FloorLog2(dec.length \div FiltLen) + 1)

\* C4: with K the realized number of levels, the call returns K + 1 segments
\* [approximation, detail_K, ..., detail_1] of lengths N/2^K, N/2^K, ..., N/2.
C4_Layout ==
  (Decomposed /\ Len(call.data) > 0 /\ ValidLevel /\ dec.error # "AssertionError")
    => LET K == Len(dec.mat_list)
       IN /\ dec.status = "ok"
          /\ Len(dec.out) = K + 1
          /\ Len(dec.out[1]) = dec.length \div Pow2(K)
          /\ \A i \in 2..(K + 1) :
               Len(dec.out[i]) = dec.length \div Pow2(K + 2 - i)

\* C5: matrix_wavedec and matrix_waverec called with an explicit level <= 0
\* fail with the level assertion before any operator is built, and return
\* neither coefficients nor matrices.
C5_InvalidLevel ==
  /\ (Decomposed /\ call.level # NoLevel /\ call.level[1] <= 0)
       => /\ dec.status = "error" /\ dec.error = "AssertionError"
          /\ dec.mat_list = <<>> /\ dec.out = <<>> /\ dec.out_mats = <<>>
  /\ (pc = "reconstructed" /\ rcall.level # NoLevel /\ rcall.level[1] <= 0)
       => /\ rec.status = "error" /\ rec.error = "AssertionError"
          /\ rec.mat_list = <<>> /\ rec.out = <<>> /\ rec.out_mats = <<>>

C5_Witness ==
  /\ pc = "reconstructed"
  /\ rcall.level = <<0>>
  /\ rec.status = "error"
  /\ Len(dec.out_mats) = 2

\* C6: a call whose boundary method is neither 'qr' nor 'gramschmidt' fails
\* with an error, and no row is repaired by either method (stated for the
\* calls that a supported method completes: four-tap filter, feasible level).
C6_UnsupportedMethod ==
  (Decomposed /\ call.boundary \notin {"qr", "gramschmidt"} /\ ValidLevel
     /\ call.wavelet = db2 /\ dec.length > 0
     /\ Feasible(dec.length, FiltLen, dec.level))
    => /\ dec.status = "error"
       /\ \A i \in 1..Len(dec.mat_list) : dec.mat_list[i].orth = "raw"

\* C7: an odd-length input gets exactly one zero appended on the right, its
\* entries unchanged, and an even-length input is not padded; the operators
\* are built for the padded length, and matrix_waverec of the returned
\* coefficients returns a reconstruction of the padded length.
C7_OddPadding ==
  /\ Decomposed =>
       /\ dec.data = IF Len(call.data) % 2 = 1 THEN call.data \o <<Zero>>
                                               ELSE call.data
       /\ dec.length = Len(dec.data)
       /\ \A i \in 1..Len(dec.mat_list) :
            dec.mat_list[i].rows = dec.length /\ dec.mat_list[i].cols = dec.length
       /\ dec.status = "ok" => Len(Concat(dec.out)) = dec.length
  /\ (pc = "reconstructed" /\ rec.status = "ok") => Len(rec.out) = dec.length

C7_Witness ==
  /\ RoundTrip
  /\ Len(call.data) = 7
  /\ call.data[7] = One
  /\ dec.length = 8
  /\ rec.status = "ok"
  /\ Len(rec.out) = 8

\* C8 as stated: every reconstruction entry point fails when the first
\* segment it is given is not the approximation segment, before any
\* reconstruction step.
C8_AllValidate ==
  /\ (pc = "reconstructed" /\ rcall.order = "reversed" /\ Len(dec.out) >= 2)
       => rec.status = "error" /\ rec.mat_list = <<>>
  /\ (pc = "reconstructed2" /\ call2.first_kind # "tensor")
       => rec2.status = "error" /\ rec2.steps = 0

\* C8 as amended: waverec2 raises a ValueError before any reconstruction step
\* when the first element of coeffs is not a tensor; matrix_waverec does not
\* look at the order of its segments: handed detail_1 first, with the level
\* of the decomposition, it builds the cascade and returns a vector.
C8_Waverec2Validates ==
  /\ (pc = "reconstructed2" /\ call2.first_kind # "tensor")
       => rec2.status = "error" /\ rec2.error = "ValueError" /\ rec2.steps = 0
  /\ (pc = "reconstructed2" /\ call2.first_kind = "tensor")
       => rec2.error # "ValueError"
  /\ (pc = "reconstructed" /\ rcall.order = "reversed" /\ rcall.level = call.level)
       => /\ rec.status = "ok"
          /\ Len(rec.mat_list) = Len(dec.mat_list)
          /\ Len(rec.out) = dec.length

C8_Witness ==
  /\ pc = "reconstructed2"
  /\ call2.first_kind = "tuple"
  /\ Len(call2.details) = 2
  /\ rec2.error = "ValueError"
  /\ rec2.steps = 0

\* C9: the level-1 entry of the cascade is the boundary-corrected operator
\* itself; every entry of level s >= 2 is an N x N matrix whose top-left
\* block is the operator for the current sub-length, whose other stored
\* entries are exactly the ones on the diagonal from the sub-length to N - 1,
\* and which leaves the trailing N - sub-length entries of every vector it
\* multiplies unchanged.
C9_IdentityEmbedding ==
  Decomposed =>
    \A s \in 1..Len(dec.mat_list) :
      LET m == dec.mat_list[s]
          n == dec.split_list[s]
          N == dec.length
          an == construct_boundary_a(call.wavelet, n, call.boundary)
      IN IF s = 1 THEN m = an
         ELSE /\ m.rows = N /\ m.cols = N
              /\ {e \in m.ent : e.r < n /\ e.c < n} = an.ent
              /\ {e \in m.ent : e.r >= n \/ e.c >= n}
                   = {[r |-> i, c |-> i, v |-> One] : i \in n..(N - 1)}
              /\ \A v \in Signals(N) : \A j \in (n + 1)..N :
                   sparse_mm(m, v)[j] = v[j]
              /\ \A j \in (n + 1)..N : dec.steps[s + 1][j] = dec.steps[s][j]

C9_Witness ==
  /\ pc = "decomposed"
  /\ dec.status = "ok"
  /\ Len(dec.mat_list) = 3
  /\ dec.mat_list[3].rows = 8
  /\ dec.split_list[3] = 2
  /\ dec.steps[4][8] = InvSqrt2

\* C10: when the padded input is shorter than the filter, the call builds
\* no operator and returns the whole input as the single segment.
C10_EmptyCascade ==
  (Decomposed /\ Len(call.data) > 0 /\ ValidLevel /\ dec.length < FiltLen)
    => /\ dec.status = "ok"
       /\ dec.out_mats = <<>>
       /\ dec.out = <<dec.data>>

\* C11: matrix_wavedec builds its operators for the sub-lengths N, N // 2,
\* N // 4, ... and applies them in that order, level 1 (full length) first;
\* matrix_waverec, called on a vector of the same length with the same
\* wavelet and level, builds its operators for the same sub-lengths and
\* applies them in the reverse order, deepest realized level first and
\* level 1 last, which is also the order of the list it returns.
C11_CascadeOrdering ==
  /\ Decomposed =>
       /\ Len(dec.split_list) >= Len(dec.mat_list)
       /\ \A s \in 1..Len(dec.mat_list) :
            /\ dec.split_list[s] = dec.length \div Pow2(s - 1)
            /\ {e \in dec.mat_list[s].ent :
                  e.r < dec.split_list[s] /\ e.c < dec.split_list[s]}
                 = construct_boundary_a(call.wavelet, dec.split_list[s],
                                        call.boundary).ent
            /\ s + 1 <= Len(dec.steps)
                 => dec.steps[s + 1] = sparse_mm(dec.mat_list[s], dec.steps[s])
  /\ (pc = "reconstructed" /\ rcall.level = call.level) =>
       LET K == Len(rec.mat_list)
       IN /\ K = Len(dec.mat_list)
          /\ rec.split_list = dec.split_list
          /\ \A s \in 1..K :
               {e \in rec.mat_list[s].ent :
                  e.r < rec.split_list[s] /\ e.c < rec.split_list[s]}
                 = construct_boundary_s(call.wavelet, rec.split_list[s],
                                        rcall.boundary).ent
          /\ Len(rec.steps) = K + 1
          /\ \A i \in 1..K :
               rec.steps[i + 1] = sparse_mm(rec.mat_list[K + 1 - i], rec.steps[i])
          /\ rec.out = rec.steps[K + 1]
          /\ rec.out_mats = [i \in 1..K |-> rec.mat_list[K + 1 - i]]

C11_Witness ==
  /\ RoundTrip
  /\ call.wavelet = haar
  /\ dec.split_list = <<8, 4, 2, 1>>
  /\ Len(rec.mat_list) = 3
  /\ dec.data = [i \in 1..8 |-> Num(i)]
  /\ rec.steps[2] # rec.steps[1]
  /\ rec.steps[2] # sparse_mm(rec.mat_list[1], rec.steps[1])
  /\ rec.steps[4] = dec.data

\* the entries of row r whose value is not zero
NonZeros(matrix, r) == Cardinality({e \in matrix.ent : e.r = r /\ e.v # Zero})

\* C12: of an operator built from a filter bank of F taps, orthogonalize
\* selects exactly the rows with fewer than F nonzero entries (never a row
\* with exactly F); when it selects none it returns the operator as it got
\* it, and neither QR nor Gram-Schmidt has run. The same holds of every
\* operator of a cascade built by matrix_wavedec.
C12_RowFlagging ==
  /\ pc = "constructed" =>
       LET F == filt_len_of(op.wavelet)
       IN /\ op.to_orthogonalize
               = {r \in 0..(op.raw.rows - 1) : NonZeros(op.raw, r) < F}
          /\ \A r \in 0..(op.raw.rows - 1) :
               NonZeros(op.raw, r) = F => r \notin op.to_orthogonalize
          /\ op.to_orthogonalize = {} =>
               /\ op.orth_out = op.raw
               /\ op.orth_out.orth = "raw"
               /\ op.out = IF op.kind = "a" THEN op.raw ELSE transpose(op.raw)
          /\ \A e \in op.raw.ent :
               e.r \notin op.to_orthogonalize => e \in op.orth_out.ent
  /\ Decomposed =>
       \A s \in 1..Len(dec.mat_list) :
         LET raw == construct_a(call.wavelet, dec.split_list[s])
         IN (\A r \in 0..(raw.rows - 1) : NonZeros(raw, r) >= FiltLen)
              => /\ dec.mat_list[s].orth = "raw"
                 /\ raw.ent \subseteq dec.mat_list[s].ent

C12_Witness ==
  /\ pc = "constructed"
  /\ op.kind = "a"
  /\ op.wavelet = db2
  /\ op.length = 8
  /\ op.to_orthogonalize = {0, 3, 4, 7}
  /\ NonZeros(op.raw, 1) = 4
  /\ op.orth_out.orth = "qr"

====
